---- MODULE Spec2Model ----
(***************************************************************************)
(* Anomaly-scoring engine: the ModelPredictor registry and scoring call    *)
(* (model_predictor.py), the stdin/stdout adapter (predictor_interface.py) *)
(* and the offline training job (train_model.py).                          *)
(*                                                                         *)
(* Floating point values are modelled as exact rationals [num, den].       *)
(***************************************************************************)
EXTENDS Integers, Sequences, FiniteSets, TLC

VARIABLES
    pc,            \* predictor process: "load" | "ready" | "returned" | "exited"
    i,             \* load_models: index of the machine type being loaded
    step,          \* load_models: position inside the loop body
    model,         \* load_models: local variable model
    scaler,        \* load_models: local variable scaler
    models,        \* ModelPredictor.models
    scalers,       \* ModelPredictor.scalers
    loadLog,       \* per machine type, the level load_models logged
    call,          \* the last call made on the predictor / adapter
    outcome,       \* how that call ended: Ok or the exception raised
    result,        \* what that call returned
    prev,          \* the value returned by the scoring call before it
    stdout,        \* adapter: the objects written to standard output
    exitCode,      \* adapter: process exit code (-1 while running)
    uncaught,      \* adapter: the exception that escaped main, if any
    tpc,           \* training main: "loop" | "report" | "done"
    ti,            \* training main: index of the machine type in the loop
    trained_models,\* training main: keys of trained_models, in order
    attempts,      \* training main: calls of train_model_for_machine_type
    files,         \* training: artifact files written so far
    run,           \* training: the last train_model_for_machine_type run
    report         \* training: trained_models list written at the end

vars == <<pc, i, step, model, scaler, models, scalers, loadLog, call, outcome,
          result, prev, stdout, exitCode, uncaught,
          tpc, ti, trained_models, attempts, files, run, report>>

predVars == <<pc, i, step, model, scaler, models, scalers, loadLog, call,
              outcome, result, prev, stdout, exitCode, uncaught>>

trainVars == <<tpc, ti, trained_models, attempts, files, run, report>>

----------------------------------------------------------------------------
(* Bounds of the model *)

\* readings offered to a call lack at most this many of the eight keys
MaxMissing == 1

\* reconstruction offsets of the model artifacts range over 0..MaxOffset
MaxOffset == 3

----------------------------------------------------------------------------
(* Program constants *)

machine_types == <<"Pump", "Compressor", "Motor", "Valve">>

MachineTypes == {machine_types[k] : k \in 1..Len(machine_types)}

\* a machine type outside the enumerated four
UnknownType == "Fan"

CallTypes == MachineTypes \cup {UnknownType}

FeatureKeys == <<"vibration", "temperature", "pressure", "flowRate",
                 "rotationalSpeed">>

required_fields == <<"timestamp", "vibration", "temperature", "pressure",
                     "flowRate", "rotationalSpeed", "machineType", "machineId">>

\* threshold = 0.01, as the rational ThresholdNum / ThresholdDen
ThresholdNum == 1

ThresholdDen == 100

----------------------------------------------------------------------------
(* Exact rational arithmetic standing for the float computations *)

Abs(x) == IF x < 0 THEN -x ELSE x

RECURSIVE GCD(_, _)
GCD(a, b) == IF b = 0 THEN a ELSE GCD(b, a % b)

Rat(n, d) ==
    LET s == IF d < 0 THEN -1 ELSE 1
        g == GCD(Abs(n), Abs(d))
    IN  [num |-> (s * n) \div g, den |-> (s * d) \div g]

RatAdd(p, q) == Rat(p.num * q.den + q.num * p.den, p.den * q.den)

RatSub(p, q) == Rat(p.num * q.den - q.num * p.den, p.den * q.den)

RatMul(p, q) == Rat(p.num * q.num, p.den * q.den)

RatDiv(p, q) == Rat(p.num * q.den, p.den * q.num)

RatLt(p, q) == p.num * q.den < q.num * p.den

RatLe(p, q) == p.num * q.den <= q.num * p.den

Zero == Rat(0, 1)

One == Rat(1, 1)

\* a function or sequence, evaluated once and held as a table
Table(f) == f @@ <<>>

RECURSIVE RatSum(_)
RatSum(s) == IF s = <<>> THEN Zero ELSE RatAdd(Head(s), RatSum(Tail(s)))

----------------------------------------------------------------------------
(* Values *)

Ok == [type |-> "ok", msg |-> ""]

Exc(t, m) == [type |-> t, msg |-> m]

None == [kind |-> "None"]

NoCall == [op |-> "none"]

\* a complete request for machine type mt
FullReading(mt) ==
    [timestamp |-> "2023-01-01T00:00:00Z", vibration |-> 3, temperature |-> 5,
     pressure |-> 4, flowRate |-> 2, rotationalSpeed |-> 7,
     machineType |-> mt, machineId |-> "M001"]

Restrict(f, S) == [k \in S |-> f[k]]

AllKeys == {required_fields[k] : k \in 1..Len(required_fields)}

\* the readings offered to the calls: a complete one, and the ones lacking
\* up to MaxMissing keys
Readings(mt) ==
    {Restrict(FullReading(mt), AllKeys \ M) :
        M \in {S \in SUBSET AllKeys : Cardinality(S) <= MaxMissing}}

\* artifacts found on disk: a scaler holds data_min and data_range per
\* dimension; a model reconstructs its input up to a fixed offset per
\* dimension, in tenths
ScalerArtifact == [data_min |-> <<0, 0, 0, 0, 0>>,
                   data_range |-> <<10, 10, 10, 10, 10>>]

ModelArtifact(a, b) == [offset |-> <<a, b, 0, 0, 0>>]

\* the model artifacts a disk may hold in the process life cycle
DiskModels == {ModelArtifact(0, 0), ModelArtifact(MaxOffset, 1)}

DiskScalers == {ScalerArtifact}

\* a failure raised inside a library call made by a scoring call
Faults == {"none", "transform", "predict"}

\* the requests the adapter may read from standard input
Inputs ==
    {[kind |-> k, data |-> <<>>] :
        k \in {"empty", "invalid", "array", "string", "number", "null"}}
    \cup {[kind |-> "object", data |-> d] :
            d \in UNION {Readings(mt) : mt \in CallTypes}}

----------------------------------------------------------------------------
(* ModelPredictor *)

\* dict assignment d[k] = v
Put(d, k, v) == [x \in (DOMAIN d) \cup {k} |-> IF x = k THEN v ELSE d[x]]

\* the first key of keys, in order, that data lacks ("" when none)
RECURSIVE FirstMissing(_, _)
FirstMissing(keys, data) ==
    IF keys = <<>> THEN ""
    ELSE IF Head(keys) \notin DOMAIN data THEN Head(keys)
    ELSE FirstMissing(Tail(keys), data)

\* MinMaxScaler.transform: (x - data_min) / data_range per dimension, a zero
\* range scaling by 1
transform(sc, features) ==
    [d \in 1..Len(features) |->
        Rat(features[d] - sc.data_min[d],
            IF sc.data_range[d] = 0 THEN 1 ELSE sc.data_range[d])]

\* model.predict: the reconstruction of a scaled vector
predict(m, features_scaled) ==
    [d \in 1..Len(features_scaled) |->
        RatAdd(features_scaled[d], Rat(m.offset[d], 10))]

\* np.mean(np.power(a - b, 2))
MeanSquaredError(a, b) ==
    LET sq == [d \in 1..Len(a) |->
                  RatMul(RatSub(a[d], b[d]), RatSub(a[d], b[d]))]
    IN  RatDiv(RatSum(sq), Rat(Len(a), 1))

\* variant: an absent measurement read as 0
extract_features_defaulting(data) ==
    [outcome |-> Ok,
     value |-> [d \in 1..Len(FeatureKeys) |->
                   IF FeatureKeys[d] \in DOMAIN data THEN data[FeatureKeys[d]]
                   ELSE 0]]

\* features = np.array([[data['vibration'], ..., data['rotationalSpeed']]])
extract_features(data) ==
    IF FirstMissing(FeatureKeys, data) # ""
    THEN [outcome |-> Exc("KeyError", FirstMissing(FeatureKeys, data)),
          value |-> None]
    ELSE [outcome |-> Ok,
          value |-> [d \in 1..Len(FeatureKeys) |-> data[FeatureKeys[d]]]]

\* preprocess_data(data, machine_type): [outcome, value]
preprocess_data(scs, data, machine_type, fault) ==
    IF machine_type \notin DOMAIN scs
    THEN [outcome |-> Exc("ValueError", "No scaler found"), value |-> None]
    ELSE IF extract_features(data).outcome # Ok
    THEN extract_features(data)
    ELSE IF fault = "transform"
    THEN [outcome |-> Exc("Exception", "transform"), value |-> None]
    ELSE [outcome |-> Ok,
          value |-> [kind |-> "features",
                     scaled |-> transform(scs[machine_type],
                                          extract_features(data).value)]]

\* variant: mse >= threshold
is_anomaly_inclusive(mse) == ~RatLt(mse, Rat(ThresholdNum, ThresholdDen))

\* is_anomaly = mse > threshold
is_anomaly(mse) == RatLt(Rat(ThresholdNum, ThresholdDen), mse)

\* variant: mse / (threshold * 2) without the min
anomaly_probability_unclamped(mse) ==
    RatDiv(mse, RatMul(Rat(ThresholdNum, ThresholdDen), Rat(2, 1)))

\* anomaly_probability = min(mse / (threshold * 2), 1.0)
anomaly_probability(mse) ==
    LET p == RatDiv(mse, RatMul(Rat(ThresholdNum, ThresholdDen), Rat(2, 1)))
    IN  IF RatLe(p, One) THEN p ELSE One

\* the dict returned by predict_anomaly
PredictionResult(data, machine_type, mse) ==
    [kind |-> "PredictionResult",
     timestamp |-> data["timestamp"],
     machineId |-> data["machineId"],
     machineType |-> machine_type,
     anomalyProbability |-> anomaly_probability(mse),
     isAnomaly |-> is_anomaly(mse),
     mse |-> mse,
     predictionDetails |->
        [confidence |-> RatSub(One, anomaly_probability(mse)),
         recommendedAction |-> IF is_anomaly(mse) THEN "Inspect immediately"
                               ELSE "No action required"]]

\* variant: no lookup before preprocessing
NoModelUnchecked(ms, machine_type) == FALSE

\* the guard at the head of predict_anomaly: machine_type not in self.models
NoModel(ms, machine_type) == machine_type \notin DOMAIN ms

\* predict_anomaly(data, machine_type): [outcome, value]
predict_anomaly(ms, scs, data, machine_type, fault) ==
    IF NoModel(ms, machine_type)
    THEN [outcome |-> Exc("ValueError", "No model found"), value |-> None]
    ELSE LET pre == preprocess_data(scs, data, machine_type, fault)
         IN  IF pre.outcome # Ok THEN pre
             ELSE IF fault = "predict"
             THEN [outcome |-> Exc("Exception", "predict"), value |-> None]
             ELSE IF FirstMissing(<<"timestamp", "machineId">>, data) # ""
             THEN [outcome |-> Exc("KeyError",
                        FirstMissing(<<"timestamp", "machineId">>, data)),
                   value |-> None]
             ELSE [outcome |-> Ok,
                   value |-> PredictionResult(data, machine_type,
                       MeanSquaredError(pre.value.scaled,
                           predict(ms[machine_type], pre.value.scaled)))]

\* get_machine_types(): list(self.models.keys()), in insertion order
get_machine_types(ms) == SelectSeq(machine_types, LAMBDA t : t \in DOMAIN ms)

----------------------------------------------------------------------------
(* predictor_interface.main *)

\* the error object printed by the except branch
error_result(e, data) ==
    LET get(k) == IF k \in DOMAIN data THEN data[k] ELSE ""
    IN  [error |-> e.msg,
         timestamp |-> get("timestamp"),
         machineId |-> get("machineId"),
         machineType |-> get("machineType"),
         anomalyProbability |-> Zero,
         isAnomaly |-> FALSE,
         predictionDetails |->
            [confidence |-> Zero,
             recommendedAction |-> "Error occurred during prediction"]]

\* the except branch of main, entered with exception e: it reads data.get,
\* which needs the local data to be bound, and to a dict
handler(e, input) ==
    IF input.kind \in {"empty", "invalid"}
    THEN [outcome |-> e, stdout |-> <<>>, exitCode |-> 1,
          uncaught |-> Exc("UnboundLocalError", "data")]
    ELSE IF input.kind # "object"
    THEN [outcome |-> e, stdout |-> <<>>, exitCode |-> 1,
          uncaught |-> Exc("AttributeError", "get")]
    ELSE [outcome |-> e, stdout |-> <<error_result(e, input.data)>>,
          exitCode |-> 1, uncaught |-> Ok]

\* main(): [outcome, stdout, exitCode, uncaught]
main(ms, scs, input, fault) ==
    IF input.kind = "empty"
    THEN handler(Exc("ValueError", "No input data received"), input)
    ELSE IF input.kind = "invalid"
    THEN handler(Exc("JSONDecodeError", "Expecting value"), input)
    ELSE IF input.kind \in {"number", "null"}
    THEN handler(Exc("TypeError", "not iterable"), input)
    ELSE IF input.kind \in {"array", "string"}
    THEN handler(Exc("ValueError", "Missing required field"), input)
    ELSE IF FirstMissing(required_fields, input.data) # ""
    THEN handler(Exc("ValueError", "Missing required field"), input)
    ELSE LET r == predict_anomaly(ms, scs, input.data,
                                  input.data["machineType"], fault)
         IN  IF r.outcome # Ok THEN handler(r.outcome, input)
             ELSE [outcome |-> Ok, stdout |-> <<r.value>>, exitCode |-> 0,
                   uncaught |-> Ok]

----------------------------------------------------------------------------
(* The predictor process: load_models, then calls *)

TrainIdle ==
    /\ tpc = "idle"
    /\ ti = 0
    /\ trained_models = <<>>
    /\ attempts = <<>>
    /\ files = {}
    /\ run = None
    /\ report = None

Init ==
    /\ pc = "load"
    /\ i = 1
    /\ step = "exists"
    /\ model = None
    /\ scaler = None
    /\ models = <<>>
    /\ scalers = <<>>
    /\ loadLog = <<>>
    /\ call = NoCall
    /\ outcome = Ok
    /\ result = None
    /\ prev = None
    /\ stdout = <<>>
    /\ exitCode = -1
    /\ uncaught = Ok
    /\ TrainIdle

\* variant: an iteration whose failure ends the whole loop
NextTypeAborting(level, m, sc) ==
    /\ loadLog' = Put(loadLog, machine_types[i], level)
    /\ i' = IF level = "info" THEN i + 1 ELSE Len(machine_types) + 1
    /\ step' = "exists"
    /\ pc' = IF i = Len(machine_types) \/ level # "info" THEN "ready"
             ELSE "load"
    /\ model' = IF i = Len(machine_types) \/ level # "info" THEN None ELSE m
    /\ scaler' = IF i = Len(machine_types) \/ level # "info" THEN None ELSE sc

\* the end of one iteration of the for loop of load_models
NextType(level, m, sc) ==
    /\ loadLog' = Put(loadLog, machine_types[i], level)
    /\ i' = i + 1
    /\ step' = "exists"
    /\ pc' = IF i = Len(machine_types) THEN "ready" ELSE "load"
    /\ model' = IF i = Len(machine_types) THEN None ELSE m
    /\ scaler' = IF i = Len(machine_types) THEN None ELSE sc

\* os.path.exists(model_filename) and os.path.exists(scaler_filename)
CheckFiles ==
    /\ pc = "load" /\ step = "exists"
    /\ \E modelExists \in BOOLEAN, scalerExists \in BOOLEAN :
          IF modelExists /\ scalerExists
          THEN /\ step' = "load_model"
               /\ UNCHANGED <<pc, i, loadLog, model, scaler>>
          ELSE NextType("warning", model, scaler)
    /\ UNCHANGED <<models, scalers, call, outcome, result, prev,
                   stdout, exitCode, uncaught, trainVars>>

\* model = tf.keras.models.load_model(model_filename)
LoadModel ==
    /\ pc = "load" /\ step = "load_model"
    /\ \E f \in DiskModels \cup {None} :
          IF f = None
          THEN NextType("error", model, scaler)
          ELSE /\ model' = f
               /\ step' = "load_scaler"
               /\ UNCHANGED <<pc, i, loadLog, scaler>>
    /\ UNCHANGED <<models, scalers, call, outcome, result, prev,
                   stdout, exitCode, uncaught, trainVars>>

\* scaler = joblib.load(scaler_filename)
LoadScaler ==
    /\ pc = "load" /\ step = "load_scaler"
    /\ \E f \in DiskScalers \cup {None} :
          IF f = None
          THEN NextType("error", model, scaler)
          ELSE /\ scaler' = f
               /\ step' = "register"
               /\ UNCHANGED <<pc, i, loadLog, model>>
    /\ UNCHANGED <<models, scalers, call, outcome, result, prev,
                   stdout, exitCode, uncaught, trainVars>>

\* variant: the model stored, the scaler not
RegisterModelOnly(ms, scs, machine_type, m, sc) ==
    [models |-> Put(ms, machine_type, m), scalers |-> scs]

\* self.models[machine_type] = model; self.scalers[machine_type] = scaler.
\* Both loads have returned by then and neither assignment can raise, so the
\* two are one step
Register(ms, scs, machine_type, m, sc) ==
    [models |-> Put(ms, machine_type, m),
     scalers |-> Put(scs, machine_type, sc)]

StoreEntry ==
    /\ pc = "load" /\ step = "register"
    /\ LET r == Register(models, scalers, machine_types[i], model, scaler)
       IN  /\ models' = r.models
           /\ scalers' = r.scalers
    /\ NextType("info", model, scaler)
    /\ UNCHANGED <<call, outcome, result, prev,
                   stdout, exitCode, uncaught, trainVars>>

\* a caller invokes predictor.predict_anomaly(data, machine_type)
PredictCall ==
    /\ pc = "ready"
    /\ \E mt \in CallTypes, f \in Faults :
       \E data \in Readings(mt) :
          LET r == predict_anomaly(models, scalers, data, mt, f)
          IN  /\ call' = [op |-> "predict_anomaly", data |-> data,
                          machine_type |-> mt, fault |-> f]
              /\ outcome' = r.outcome
              /\ result' = r.value
    /\ pc' = "returned"
    /\ UNCHANGED <<i, step, model, scaler, models, scalers, loadLog, prev,
                   stdout, exitCode, uncaught, trainVars>>

\* a caller invokes predictor.preprocess_data(data, machine_type)
PreprocessCall ==
    /\ pc = "ready"
    /\ \E mt \in CallTypes, f \in Faults \ {"predict"} :
       \E data \in Readings(mt) :
          LET r == preprocess_data(scalers, data, mt, f)
          IN  /\ call' = [op |-> "preprocess_data", data |-> data,
                          machine_type |-> mt, fault |-> f]
              /\ outcome' = r.outcome
              /\ result' = r.value
    /\ pc' = "returned"
    /\ UNCHANGED <<i, step, model, scaler, models, scalers, loadLog, prev,
                   stdout, exitCode, uncaught, trainVars>>

\* a caller invokes predictor.get_machine_types()
MachineTypesCall ==
    /\ pc = "ready"
    /\ call' = [op |-> "get_machine_types"]
    /\ outcome' = Ok
    /\ result' = [kind |-> "list", value |-> get_machine_types(models)]
    /\ pc' = "returned"
    /\ UNCHANGED <<i, step, model, scaler, models, scalers, loadLog, prev,
                   stdout, exitCode, uncaught, trainVars>>

\* the adapter process runs main() on what it reads from standard input
MainCall ==
    /\ pc = "ready"
    /\ \E input \in Inputs, f \in Faults :
          LET r == main(models, scalers, input, f)
          IN  /\ call' = [op |-> "main", input |-> input, fault |-> f]
              /\ outcome' = r.outcome
              /\ stdout' = r.stdout
              /\ exitCode' = r.exitCode
              /\ uncaught' = r.uncaught
    /\ result' = None
    /\ pc' = "exited"
    /\ UNCHANGED <<i, step, model, scaler, models, scalers, loadLog, prev,
                   trainVars>>

\* the caller takes the returned value (or the exception) and goes on
Return ==
    /\ pc = "returned"
    /\ pc' = "ready"
    /\ call' = NoCall
    /\ outcome' = Ok
    /\ result' = None
    /\ UNCHANGED <<i, step, model, scaler, models, scalers, loadLog, prev,
                   stdout, exitCode, uncaught, trainVars>>

Next ==
    \/ CheckFiles
    \/ LoadModel
    \/ LoadScaler
    \/ StoreEntry
    \/ PredictCall
    \/ PreprocessCall
    \/ MachineTypesCall
    \/ Return
    \/ MainCall

Spec == Init /\ [][Next]_vars

----------------------------------------------------------------------------
(* The decision procedure of predict_anomaly over reconstruction errors on *)
(* both sides of the threshold: a loaded registry, scored repeatedly       *)

WideModels == {ModelArtifact(a, b) : a \in 0..MaxOffset, b \in 0..MaxOffset}

InitDecision ==
    /\ pc = "ready"
    /\ i = Len(machine_types) + 1
    /\ step = "exists"
    /\ model = None
    /\ scaler = None
    /\ \E m1 \in WideModels, m2 \in WideModels :
          models = [t \in MachineTypes |->
                       IF t \in {"Pump", "Motor"} THEN m1 ELSE m2]
    /\ scalers = [t \in MachineTypes |-> ScalerArtifact]
    /\ loadLog = [t \in MachineTypes |-> "info"]
    /\ call = NoCall
    /\ outcome = Ok
    /\ result = None
    /\ prev = None
    /\ stdout = <<>>
    /\ exitCode = -1
    /\ uncaught = Ok
    /\ TrainIdle

\* a caller scores a complete reading and keeps the value returned before
ScoreCall ==
    /\ pc = "ready"
    /\ \E mt \in MachineTypes :
          LET r == predict_anomaly(models, scalers, FullReading(mt), mt, "none")
          IN  /\ call' = [op |-> "predict_anomaly", data |-> FullReading(mt),
                          machine_type |-> mt, fault |-> "none"]
              /\ outcome' = r.outcome
              /\ result' = r.value
    /\ prev' = result
    /\ UNCHANGED <<pc, i, step, model, scaler, models, scalers, loadLog,
                   stdout, exitCode, uncaught, trainVars>>

NextDecision == ScoreCall

SpecDecision == InitDecision /\ [][NextDecision]_vars

----------------------------------------------------------------------------
(* Claims about the adapter and the predictor *)

Loaded == {t \in MachineTypes : t \in DOMAIN loadLog /\ loadLog[t] = "info"}

MissesFeature(data) == \E d \in 1..Len(FeatureKeys) : FeatureKeys[d] \notin DOMAIN data

IsErrorObject(o) ==
    /\ DOMAIN o = {"error", "timestamp", "machineId", "machineType",
                   "anomalyProbability", "isAnomaly", "predictionDetails"}
    /\ o.anomalyProbability = Zero
    /\ o.isAnomaly = FALSE
    /\ o.predictionDetails.recommendedAction = "Error occurred during prediction"

\* C1: every run of the adapter's main in which something fails writes
\* exactly one well-formed JSON error object to standard output and exits
\* with code 1.
C1_ErrorObjectOnEveryFailure ==
    (pc = "exited" /\ outcome # Ok) =>
        /\ Len(stdout) = 1
        /\ IsErrorObject(stdout[1])
        /\ exitCode = 1

\* C3: once load_models has completed, every machine type has been
\* attempted, get_machine_types returns exactly the types whose model and
\* scaler both loaded, and a scoring call for a type that did not load fails
\* and leaves models and scalers as they were.
C3_State ==
    pc # "load" =>
        /\ DOMAIN loadLog = MachineTypes
        /\ get_machine_types(models) =
              SelectSeq(machine_types, LAMBDA t : t \in Loaded)
        /\ (call.op = "get_machine_types" =>
              result.value = SelectSeq(machine_types, LAMBDA t : t \in Loaded))
        /\ (call.op = "predict_anomaly" /\ call.machine_type \notin Loaded =>
              outcome # Ok /\ result = None)

C3_Step ==
    (pc = "ready" /\ pc' = "returned") => (models' = models /\ scalers' = scalers)

C3_PartialLoad == [](C3_State) /\ [][C3_Step]_vars

C3_Witness ==
    /\ pc = "returned"
    /\ call.op = "predict_anomaly"
    /\ call.machine_type = "Motor"
    /\ Loaded = {"Pump", "Compressor", "Valve"}
    /\ loadLog["Motor"] = "error"
    /\ outcome # Ok

\* C4: predict_anomaly for a machine type without a registry entry raises
\* "No model found" and returns nothing, also when the reading lacks
\* measurement fields; through main, a complete request for such a type ends
\* in the same error.
C4_ModelNotFoundFirst ==
    /\ (pc = "returned" /\ call.op = "predict_anomaly"
            /\ call.machine_type \notin DOMAIN models) =>
          (outcome = Exc("ValueError", "No model found") /\ result = None)
    /\ (pc = "exited" /\ call.input.kind = "object"
            /\ FirstMissing(required_fields, call.input.data) = ""
            /\ call.input.data["machineType"] \notin DOMAIN models) =>
          outcome = Exc("ValueError", "No model found")

C4_Witness ==
    /\ pc = "returned"
    /\ call.op = "predict_anomaly"
    /\ call.machine_type = "Valve"
    /\ "Valve" \notin DOMAIN models
    /\ "Pump" \in DOMAIN models
    /\ "pressure" \notin DOMAIN call.data
    /\ outcome = Exc("ValueError", "No model found")

\* C5: predict_anomaly for a loaded machine type and a reading lacking one
\* of the five measurement fields raises the missing-field error (KeyError)
\* and returns no result.
C5_MissingFieldRejected ==
    (pc = "returned" /\ call.op = "predict_anomaly"
        /\ call.machine_type \in DOMAIN models /\ MissesFeature(call.data)) =>
      (outcome.type = "KeyError" /\ result = None)

C5_Witness ==
    /\ pc = "returned"
    /\ call.op = "predict_anomaly"
    /\ call.machine_type \in DOMAIN models
    /\ "rotationalSpeed" \notin DOMAIN call.data
    /\ outcome = Exc("KeyError", "rotationalSpeed")
    /\ result = None

\* C6: isAnomaly is true exactly when mse > 0.01 (so not at mse = 0.01), and
\* recommendedAction is "Inspect immediately" exactly when isAnomaly is true
\* and "No action required" otherwise, for every machine type.
C6_StrictThreshold ==
    result.kind = "PredictionResult" =>
        /\ result.isAnomaly <=>
              (result.mse.num * ThresholdDen > ThresholdNum * result.mse.den)
        /\ (result.mse.num * ThresholdDen = ThresholdNum * result.mse.den
              => ~result.isAnomaly)
        /\ result.predictionDetails.recommendedAction =
              (IF result.isAnomaly THEN "Inspect immediately"
               ELSE "No action required")

C6_Witness ==
    /\ result.kind = "PredictionResult"
    /\ result.mse.num * ThresholdDen = ThresholdNum * result.mse.den
    /\ ~result.isAnomaly
    /\ result.predictionDetails.recommendedAction = "No action required"
    /\ prev.kind = "PredictionResult"
    /\ prev.isAnomaly
    /\ prev.machineType # result.machineType

\* C7: anomalyProbability is non-decreasing in mse, is exactly 1 once
\* mse >= 2 * threshold, and anomalyProbability and confidence lie in [0, 1].
C7_ProbabilityMonotoneClamped ==
    result.kind = "PredictionResult" =>
        LET p == result.anomalyProbability
            c == result.predictionDetails.confidence
        IN  /\ 0 <= p.num /\ p.num <= p.den
            /\ 0 <= c.num /\ c.num <= c.den
            /\ p.num * c.den + c.num * p.den = p.den * c.den
            /\ (result.mse.num * ThresholdDen >= 2 * ThresholdNum * result.mse.den
                  => p.num = p.den)
            /\ (prev.kind = "PredictionResult"
                  /\ prev.mse.num * result.mse.den <= result.mse.num * prev.mse.den
                  => prev.anomalyProbability.num * p.den
                        <= p.num * prev.anomalyProbability.den)

C7_Witness ==
    /\ result.kind = "PredictionResult"
    /\ prev.kind = "PredictionResult"
    /\ prev.mse.num * ThresholdDen < 2 * ThresholdNum * prev.mse.den
    /\ prev.mse.num > 0
    /\ result.mse.num * ThresholdDen > 2 * ThresholdNum * result.mse.den
    /\ result.anomalyProbability = One
    /\ result.predictionDetails.confidence = Zero

\* C10: in every state the machine types holding a model are those holding
\* a scaler, no call on the predictor changes models or scalers, and
\* predict_anomaly never ends in the "No scaler found" error.
C10_State ==
    /\ DOMAIN models = DOMAIN scalers
    /\ (call.op = "predict_anomaly" =>
          outcome # Exc("ValueError", "No scaler found"))

C10_Step == pc # "load" => (models' = models /\ scalers' = scalers)

C10_RegistryPaired == [](C10_State) /\ [][C10_Step]_vars

C10_Witness ==
    /\ pc = "returned"
    /\ call.op = "predict_anomaly"
    /\ outcome = Exc("KeyError", "vibration")
    /\ loadLog["Pump"] = "error"
    /\ loadLog["Compressor"] = "info"
    /\ DOMAIN models = {"Compressor", "Valve"}

----------------------------------------------------------------------------
(* train_model.py: the offline training job *)

\* len(df) < 100
MinRecords == 100

\* len(X) < 10
MinPrepared == 10

\* load_data_from_db(machine_type, limit=10000)
limit == 10000

\* the data source holds up to MinRecords + MaxExtra records of a type
MaxExtra == 3

RecordCounts == {0, MinRecords - 1} \cup (MinRecords..(MinRecords + MaxExtra))

\* records of one machine type share a timestamp in groups of this size
Granularities == {1, 3}

\* what the data source answers for one machine type
DbStates ==
    {[kind |-> "unavailable"], [kind |-> "query_error"]}
    \cup {[kind |-> "rows", n |-> n, g |-> g, hot |-> h, tie |-> t] :
            n \in RecordCounts, g \in Granularities,
            h \in {"newest", "oldest"}, t \in {"stable", "reversed"}}

\* a failure raised by model.fit, model.save or joblib.dump
TrainFaults == {"none", "fit", "save", "dump"}

\* the runs offered to a call: every data source state without a failure,
\* and each failure on the smallest sufficient table
TrainInputs ==
    {[db |-> db, fault |-> "none"] : db \in DbStates}
    \cup {[db |-> [kind |-> "rows", n |-> MinRecords, g |-> 1,
                   hot |-> "newest", tie |-> "stable"],
           fault |-> f] : f \in TrainFaults}

\* the rows the query returns: ORDER BY timestamp DESC LIMIT limit.  Row j is
\* the j-th newest; one row (the newest or the oldest) carries the largest
\* vibration of the table
QueryRows(db) ==
    LET n == IF db.n < limit THEN db.n ELSE limit
        hotRow == IF db.hot = "newest" THEN 1 ELSE n
    IN  Table([j \in 1..n |->
            [id |-> j,
             timestamp |-> ((db.n - j) \div db.g) + 1,
             features |-> Table([d \in 1..Len(FeatureKeys) |->
                              IF j = hotRow /\ d = 1 THEN 90
                              ELSE 10 + ((j + d) % 4)])]])

\* variant: the rows left in query order
sort_values_skipped(df, tie) == df

\* df.sort_values('timestamp'): ascending by timestamp; the order of rows
\* with equal timestamps is not fixed by the (unstable) sort
sort_values(df, tie) ==
    LET n == Len(df)
        ts == Table([a \in 1..n |-> df[a].timestamp])
        before(a, b) ==
            \/ ts[a] < ts[b]
            \/ /\ ts[a] = ts[b]
               /\ IF tie = "stable" THEN a < b ELSE a > b
        rank == Table([a \in 1..n |->
                          Cardinality({b \in 1..n : before(b, a)}) + 1])
    IN  Table([p \in 1..n |-> df[CHOOSE a \in 1..n : rank[a] = p]])

\* load_data_from_db: None, or the rows sorted ascending by timestamp
load_data_from_db(db) ==
    IF db.kind # "rows" THEN None
    ELSE [kind |-> "df", rows |-> sort_values(QueryRows(db), db.tie)]

SetMin(S) == CHOOSE v \in S : \A w \in S : v <= w

SetMax(S) == CHOOSE v \in S : \A w \in S : w <= v

\* MinMaxScaler().fit(features)
fit(features) ==
    LET col(d) == {features[k][d] : k \in 1..Len(features)}
        lo == Table([d \in 1..Len(FeatureKeys) |-> SetMin(col(d))])
        hi == Table([d \in 1..Len(FeatureKeys) |-> SetMax(col(d))])
    IN  [data_min |-> lo,
         data_max |-> hi,
         data_range |-> [d \in 1..Len(FeatureKeys) |-> hi[d] - lo[d]],
         n_samples_seen |-> Len(features)]

\* prepare_data(data): X (= y) and the fitted scaler
prepare_data(rows) ==
    LET features == Table([k \in 1..Len(rows) |-> rows[k].features])
        sc == fit(features)
    IN  [X |-> Table([k \in 1..Len(rows) |-> transform(sc, features[k])]),
         scaler |-> sc]

\* split_idx = int(0.8 * len(X))
split_idx(n) == (8 * n) \div 10

NoRun(mt, records) ==
    [kind |-> "run", machine_type |-> mt, records |-> records,
     returned |-> "None", written |-> {}]

\* train_model_for_machine_type(machine_type), run against data source
\* state db with failure fault
train_model_for_machine_type(mt, db, fault) ==
    LET df == load_data_from_db(db)
    IN  IF df = None THEN NoRun(mt, -1)
        ELSE IF Len(df.rows) < MinRecords THEN NoRun(mt, Len(df.rows))
        ELSE
          LET prepared == prepare_data(df.rows)
              X == prepared.X
              split == split_idx(Len(X))
              modelFile == <<mt, "model.h5">>
              scalerFile == <<mt, "scaler.pkl">>
          IN  IF Len(X) < MinPrepared THEN NoRun(mt, Len(df.rows))
              ELSE IF fault # "none"
              THEN [kind |-> "run", machine_type |-> mt,
                    records |-> Len(df.rows), returned |-> "raised",
                    written |-> IF fault = "dump" THEN {modelFile} ELSE {}]
              ELSE [kind |-> "run", machine_type |-> mt,
                    records |-> Len(df.rows),
                    df |-> [k \in 1..Len(df.rows) |->
                               [id |-> df.rows[k].id,
                                timestamp |-> df.rows[k].timestamp]],
                    features |-> [k \in 1..Len(df.rows) |-> df.rows[k].features],
                    scaler |-> prepared.scaler,
                    split_idx |-> split,
                    X_train |-> SubSeq(X, 1, split),
                    X_test |-> SubSeq(X, split + 1, Len(X)),
                    returned |-> "result",
                    written |-> {modelFile, scalerFile}]

PredIdle ==
    /\ pc = "idle"
    /\ i = 0
    /\ step = "exists"
    /\ model = None
    /\ scaler = None
    /\ models = <<>>
    /\ scalers = <<>>
    /\ loadLog = <<>>
    /\ call = NoCall
    /\ outcome = Ok
    /\ result = None
    /\ prev = None
    /\ stdout = <<>>
    /\ exitCode = -1
    /\ uncaught = Ok

InitTrain ==
    /\ PredIdle
    /\ tpc = "loop"
    /\ ti = 1
    /\ trained_models = <<>>
    /\ attempts = <<>>
    /\ files = {}
    /\ run = None
    /\ report = None

\* result = train_model_for_machine_type(machine_type), inside main's try
TrainCall ==
    /\ tpc = "loop"
    /\ \E in \in TrainInputs :
          LET r == train_model_for_machine_type(machine_types[ti], in.db,
                                                in.fault)
          IN  /\ run' = r
              /\ files' = files \cup r.written
              /\ attempts' = Append(attempts,
                                [machine_type |-> machine_types[ti],
                                 returned |-> r.returned])
    /\ tpc' = "returned"
    /\ UNCHANGED <<ti, trained_models, report, predVars>>

\* variant: every finished call kept
KeepAlways(tm, r) == Append(tm, r.machine_type)

\* main: if result: trained_models[machine_type] = result
Keep(tm, r) == IF r.returned = "result" THEN Append(tm, r.machine_type) ELSE tm

\* main: the rest of the loop body (if result / else / except), and the
\* step to the next machine type
Collect ==
    /\ tpc = "returned"
    /\ trained_models' = Keep(trained_models, run)
    /\ run' = None
    /\ ti' = ti + 1
    /\ tpc' = IF ti = Len(machine_types) THEN "report" ELSE "loop"
    /\ UNCHANGED <<attempts, files, report, predVars>>

\* main: results = {'trained_models': list(trained_models.keys()), ...}
Report ==
    /\ tpc = "report"
    /\ report' = [kind |-> "report", trained_models |-> trained_models]
    /\ tpc' = "done"
    /\ UNCHANGED <<ti, trained_models, attempts, files, run, predVars>>

NextTrain ==
    \/ TrainCall
    \/ Collect
    \/ Report

SpecTrain == InitTrain /\ [][NextTrain]_vars

----------------------------------------------------------------------------
(* Claims about the training job *)

Trained == tpc = "returned" /\ run.returned = "result"

ReturnedResult ==
    {attempts[k].machine_type : k \in {a \in 1..Len(attempts) :
                                          attempts[a].returned = "result"}}

\* C2: the scaler of a training run is the one fitted on the training split
\* (the first 80% of the records) alone: it has seen only those records and
\* its per-dimension minimum and maximum are theirs.
C2_ScalerFitOnTrainingOnly ==
    Trained =>
        /\ run.scaler.n_samples_seen = run.split_idx
        /\ run.scaler = fit(SubSeq(run.features, 1, run.split_idx))

\* C8: every machine type is attempted exactly once whatever the earlier
\* ones did, the loop goes on to the report, the reported trained_models are
\* exactly the types whose training returned a result, and a type with fewer
\* than 100 records writes no artifact.
C8_TrainingLoopIndependent ==
    /\ tpc \in {"loop", "returned", "report", "done"}
    /\ tpc \in {"loop", "returned"} => ti \in 1..Len(machine_types)
    /\ Len(attempts) = (IF tpc = "returned" THEN ti ELSE ti - 1)
    /\ \A k \in 1..Len(attempts) : attempts[k].machine_type = machine_types[k]
    /\ tpc \in {"report", "done"} =>
          /\ Len(attempts) = Len(machine_types)
          /\ trained_models =
                SelectSeq(machine_types, LAMBDA t : t \in ReturnedResult)
    /\ tpc = "done" => report.trained_models = trained_models
    /\ (tpc = "returned" /\ run.records < MinRecords) =>
          /\ run.returned = "None"
          /\ \A f \in files : f[1] # run.machine_type

C8_Witness ==
    /\ tpc = "done"
    /\ attempts[1].returned = "None"
    /\ attempts[2].returned = "raised"
    /\ attempts[3].returned = "result"
    /\ attempts[4].returned = "None"
    /\ report.trained_models = <<"Motor">>
    /\ <<"Compressor", "model.h5">> \in files
    /\ <<"Pump", "model.h5">> \notin files

\* C9: for n >= 100 records the rows are in ascending timestamp order, the
\* training set is the first floor(0.8 * n) of them and the validation set
\* the rest; the two are disjoint, cover all n records, are both non-empty,
\* and no training timestamp exceeds a validation timestamp.
C9_ChronologicalSplit ==
    Trained =>
        LET n == run.records
            s == (4 * n) \div 5
            trainIds == {run.df[k].id : k \in 1..Len(run.X_train)}
            testIds == {run.df[k].id : k \in (Len(run.X_train) + 1)..n}
        IN  /\ n >= MinRecords
            /\ Len(run.df) = n
            /\ \A k \in 1..(n - 1) :
                  run.df[k].timestamp <= run.df[k + 1].timestamp
            /\ Len(run.X_train) = s
            /\ Len(run.X_test) = n - s
            /\ \A k \in 1..s :
                  run.X_train[k] = transform(run.scaler, run.features[k])
            /\ \A k \in 1..(n - s) :
                  run.X_test[k] = transform(run.scaler, run.features[s + k])
            /\ trainIds \cap testIds = {}
            /\ trainIds \cup testIds = 1..n
            /\ trainIds # {} /\ testIds # {}
            /\ \A a \in 1..s : \A b \in (s + 1)..n :
                  run.df[a].timestamp <= run.df[b].timestamp

C9_Witness ==
    /\ Trained
    /\ run.records = MinRecords + 1
    /\ Len(run.X_train) = 80
    /\ Len(run.X_test) = 21
    /\ run.df[80].timestamp = run.df[81].timestamp
    /\ run.df[1].timestamp < run.df[run.records].timestamp
    /\ run.df[80].id < run.df[81].id

====
